---- MODULE Spec2Model ----
(***************************************************************************)
(* A model of tts_server.py: the module-level startup (model load, output  *)
(* directory), and the synthesize() handler of POST /synthesize, one line  *)
(* of the handler per action, run by several requests at once.  The        *)
(* synthesis engine (tts.tts_to_file) and the web framework are external:  *)
(* the engine is modelled by every outcome a call can have (it returns     *)
(* after writing the file, it raises before or after it created the file,  *)
(* or it never returns), the framework by its turning an exception that    *)
(* leaves the handler into a 500 response.                                 *)
(***************************************************************************)
EXTENDS Integers, Sequences, FiniteSets, TLC

\* Requests the server receives in one run.
NumRequests == 2
\* Size of the space uuid.uuid4() draws from (2^122 in the program).
NumTokens == 2
\* Requests 1..NumVaried carry any body of Bodies; the requests after them
\* run beside these with a body of PlainBodies.
NumVaried == 1

Requests == 1..NumRequests
Tokens == 1..NumTokens

OUTPUT_DIR == "/home/pi/.node-red/static/audio/tts"

-----------------------------------------------------------------------------
(* JSON values, as request.json parses them: a type tag, the number (or the *)
(* truth value as 0/1), and the characters, items or keys.                  *)

JStr(chars) == [type |-> "string", n |-> 0, s |-> chars]
JNum(k) == [type |-> "number", n |-> k, s |-> <<>>]
JBool(b) == [type |-> "boolean", n |-> IF b THEN 1 ELSE 0, s |-> <<>>]
JNull == [type |-> "null", n |-> 0, s |-> <<>>]
JList(items) == [type |-> "array", n |-> 0, s |-> items]
JObj(keys) == [type |-> "object", n |-> 0, s |-> keys]

\* The values a request's "text" member takes in the model.
TextValues ==
    { JStr(<<>>), JStr(<<" ">>), JStr(<<"h", "i">>),
      JNull, JNum(0), JNum(5), JBool(FALSE),
      JList(<<>>), JList(<<"a">>), JObj(<<>>) }

\* Parsed request bodies: a JSON object with or without a "text" member, or
\* a JSON value that is no object (null, an array).
ObjectBody(hasText, v) == [kind |-> "object", hasText |-> hasText, text |-> v]
NonObjectBody(kind) == [kind |-> kind, hasText |-> FALSE, text |-> JNull]
NoBody == [kind |-> "none", hasText |-> FALSE, text |-> JNull]

Bodies ==
    { ObjectBody(TRUE, v) : v \in TextValues }
        \cup { ObjectBody(FALSE, JNull) }
        \cup { NonObjectBody(k) : k \in {"null", "array"} }

PlainBodies == { ObjectBody(TRUE, JStr(<<"h", "i">>)), ObjectBody(TRUE, JStr(<<>>)) }

BodiesOf(r) == IF r <= NumVaried THEN Bodies ELSE PlainBodies

Whitespace == {" ", "\t", "\n", "\r"}

\* Variant of Truthy: the test `text is None` in place of `not text`.
TruthyNotNone(v) == v.type # "null"

\* Variant of Truthy: a string is stripped first (`not text.strip()`).
TruthyTrimmed(v) ==
    CASE v.type = "string" -> \E i \in 1..Len(v.s) : v.s[i] \notin Whitespace
      [] v.type = "number" -> v.n # 0
      [] v.type = "boolean" -> v.n = 1
      [] v.type \in {"array", "object"} -> Len(v.s) > 0
      [] OTHER -> FALSE

\* Variant of Truthy: only a non-empty string passes
\* (`not isinstance(text, str) or not text`).
TruthyStringOnly(v) == v.type = "string" /\ Len(v.s) > 0

\* Python's truth value of a JSON value: `not text` is its negation.
Truthy(v) ==
    CASE v.type = "string" -> Len(v.s) > 0
      [] v.type = "number" -> v.n # 0
      [] v.type = "boolean" -> v.n = 1
      [] v.type = "null" -> FALSE
      [] v.type = "array" -> Len(v.s) > 0
      [] v.type = "object" -> Len(v.s) > 0

\* data.get("text", ""): the member's value, "" when the member is absent.
DictGet(b) == IF b.hasText THEN b.text ELSE JStr(<<>>)

-----------------------------------------------------------------------------
(* File names, paths and responses.                                         *)

NoToken == 0
NoName == [prefix |-> "", hex |-> NoToken, ext |-> ""]
NoPath == [dir |-> "", name |-> NoName]

\* Variant of Filename: the token is drawn once, at import, and reused.
FilenameFixed(tok) == [prefix |-> "tts_", hex |-> 1, ext |-> ".wav"]

\* f"tts_{uuid.uuid4().hex}.wav"
Filename(tok) == [prefix |-> "tts_", hex |-> tok, ext |-> ".wav"]

\* os.path.join(OUTPUT_DIR, filename)
FilePath(filename) == [dir |-> OUTPUT_DIR, name |-> filename]

NoCall == [text |-> JNull, file_path |-> NoPath, made |-> FALSE]

NoResponse == [status |-> 0, key |-> "", error |-> "", audio_path |-> NoPath]
\* jsonify({"error": "No text provided"}), 400
Resp400 ==
    [status |-> 400, key |-> "error", error |-> "No text provided",
     audio_path |-> NoPath]
\* jsonify({"audio_path": filepath})
Resp200(path) ==
    [status |-> 200, key |-> "audio_path", error |-> "", audio_path |-> path]
\* The framework's answer to an exception that leaves the handler.
Resp500 == [status |-> 500, key |-> "", error |-> "", audio_path |-> NoPath]

NoFile == [state |-> "absent", writers |-> {}]

-----------------------------------------------------------------------------
VARIABLES
    server,     \* position of the module-level code
    loads,      \* how many times the TTS model was constructed
    dirExists,  \* whether OUTPUT_DIR exists
    fs,         \* the files of OUTPUT_DIR, by the token in their name
    pc,         \* each request's position in synthesize()
    body,       \* request.json of each request
    text,       \* the handler's local `text`
    uuid,       \* the token uuid.uuid4() gave the request
    filepath,   \* the handler's local `filepath`
    call,       \* the arguments of the request's tts.tts_to_file call
    outcome,    \* how that call ended
    resp        \* the response the request got

vars ==
    <<server, loads, dirExists, fs, pc, body, text, uuid, filepath, call,
      outcome, resp>>

handlerVars == <<pc, body, text, uuid, filepath, call, outcome, resp>>
startupVars == <<server, loads, dirExists>>

\* The directory may exist already, and may then hold a file of an earlier
\* run; writer 0 stands for whatever put it there.
Init ==
    /\ server = "load_model"
    /\ loads = 0
    /\ dirExists \in BOOLEAN
    /\ \E pre \in {{}, {1}} :
          /\ (~dirExists) => pre = {}
          /\ fs = [t \in Tokens |->
                     IF t \in pre
                     THEN [state |-> "complete", writers |-> {0}]
                     ELSE NoFile]
    /\ pc = [r \in Requests |-> "new"]
    /\ body = [r \in Requests |-> NoBody]
    /\ text = [r \in Requests |-> JNull]
    /\ uuid = [r \in Requests |-> NoToken]
    /\ filepath = [r \in Requests |-> NoPath]
    /\ call = [r \in Requests |-> NoCall]
    /\ outcome = [r \in Requests |-> "none"]
    /\ resp = [r \in Requests |-> NoResponse]

-----------------------------------------------------------------------------
(* Startup: the module-level statements, in order.                          *)

\* tts = TTS(model_name=...)
LoadModel ==
    /\ server = "load_model"
    /\ loads' = loads + 1
    /\ server' = "makedirs"
    /\ UNCHANGED <<dirExists, fs, handlerVars>>

\* The constructor raises: the import fails and nothing is served.
LoadModelFails ==
    /\ server = "load_model"
    /\ server' = "crashed"
    /\ UNCHANGED <<loads, dirExists, fs, handlerVars>>

\* os.makedirs(OUTPUT_DIR, exist_ok=True)
MakeDirs ==
    /\ server = "makedirs"
    /\ dirExists' = TRUE
    /\ server' = "serving"
    /\ UNCHANGED <<loads, fs, handlerVars>>

\* os.makedirs raises (no permission, a file in the way).
MakeDirsFails ==
    /\ server = "makedirs"
    /\ ~dirExists
    /\ server' = "crashed"
    /\ UNCHANGED <<loads, dirExists, fs, handlerVars>>

-----------------------------------------------------------------------------
(* The handler, one request r at a time per step.                           *)

\* The route dispatches a POST /synthesize to synthesize().
Receive(r) ==
    /\ server = "serving"
    /\ pc[r] = "new"
    /\ \E b \in BodiesOf(r) : body' = [body EXCEPT ![r] = b]
    /\ pc' = [pc EXCEPT ![r] = "get_text"]
    /\ UNCHANGED <<startupVars, fs, text, uuid, filepath, call, outcome, resp>>

\* Variant of GetText: a body that is no object is read as an empty one.
GetTextLenient(r) ==
    /\ pc[r] = "get_text"
    /\ text' = [text EXCEPT ![r] =
                  IF body[r].kind = "object" THEN DictGet(body[r]) ELSE JStr(<<>>)]
    /\ pc' = [pc EXCEPT ![r] = "validate"]
    /\ UNCHANGED <<startupVars, fs, body, uuid, filepath, call, outcome, resp>>

\* data = request.json; text = data.get("text", "")
GetText(r) ==
    /\ pc[r] = "get_text"
    /\ IF body[r].kind = "object"
       THEN /\ text' = [text EXCEPT ![r] = DictGet(body[r])]
            /\ pc' = [pc EXCEPT ![r] = "validate"]
       ELSE \* None and lists have no .get: AttributeError
            /\ text' = text
            /\ pc' = [pc EXCEPT ![r] = "raised"]
    /\ UNCHANGED <<startupVars, fs, body, uuid, filepath, call, outcome, resp>>

\* if not text: return jsonify({"error": "No text provided"}), 400
Validate(r) ==
    /\ pc[r] = "validate"
    /\ IF ~Truthy(text[r])
       THEN /\ resp' = [resp EXCEPT ![r] = Resp400]
            /\ pc' = [pc EXCEPT ![r] = "done"]
       ELSE /\ resp' = resp
            /\ pc' = [pc EXCEPT ![r] = "gen_name"]
    /\ UNCHANGED <<startupVars, fs, body, text, uuid, filepath, call, outcome>>

\* filename = f"tts_{uuid.uuid4().hex}.wav"; filepath = os.path.join(...)
GenerateFilename(r) ==
    /\ pc[r] = "gen_name"
    /\ \E t \in Tokens :
          /\ uuid' = [uuid EXCEPT ![r] = t]
          /\ filepath' = [filepath EXCEPT ![r] = FilePath(Filename(t))]
    /\ pc' = [pc EXCEPT ![r] = "call"]
    /\ UNCHANGED <<startupVars, fs, body, text, call, outcome, resp>>

\* Variant of SynthCall: the handler constructs the model before it calls.
SynthCallLoadsModel(r) ==
    /\ pc[r] = "call"
    /\ loads' = loads + 1
    /\ call' = [call EXCEPT ![r] =
                  [text |-> text[r], file_path |-> filepath[r], made |-> TRUE]]
    /\ pc' = [pc EXCEPT ![r] = "in_synth"]
    /\ UNCHANGED <<server, dirExists, fs, body, text, uuid, filepath, outcome, resp>>

\* tts.tts_to_file(text=text, file_path=filepath): the call is made.
SynthCall(r) ==
    /\ pc[r] = "call"
    /\ call' = [call EXCEPT ![r] =
                  [text |-> text[r], file_path |-> filepath[r], made |-> TRUE]]
    /\ pc' = [pc EXCEPT ![r] = "in_synth"]
    /\ UNCHANGED <<startupVars, fs, body, text, uuid, filepath, outcome, resp>>

\* Inside the call: the engine opens file_path for writing.
SynthOpenFile(r) ==
    /\ pc[r] = "in_synth"
    /\ LET t == call[r].file_path.name.hex
       IN  fs' = [fs EXCEPT ![t] =
                    [state |-> "partial", writers |-> @.writers \cup {r}]]
    /\ pc' = [pc EXCEPT ![r] = "writing"]
    /\ UNCHANGED <<startupVars, body, text, uuid, filepath, call, outcome, resp>>

\* Inside the call: the engine finishes the file and the call returns.
SynthReturn(r) ==
    /\ pc[r] = "writing"
    /\ LET t == call[r].file_path.name.hex
       IN  fs' = [fs EXCEPT ![t].state = "complete"]
    /\ outcome' = [outcome EXCEPT ![r] = "returned"]
    /\ pc' = [pc EXCEPT ![r] = "returned"]
    /\ UNCHANGED <<startupVars, body, text, uuid, filepath, call, resp>>

\* The call raises, before it created the file or while writing it.
SynthRaise(r) ==
    /\ pc[r] \in {"in_synth", "writing"}
    /\ outcome' = [outcome EXCEPT ![r] = "raised"]
    /\ pc' = [pc EXCEPT ![r] = "raised"]
    /\ UNCHANGED <<startupVars, fs, body, text, uuid, filepath, call, resp>>

\* The call never returns: the handler has no step left for the request.
SynthHang(r) ==
    /\ pc[r] \in {"in_synth", "writing"}
    /\ outcome' = [outcome EXCEPT ![r] = "hung"]
    /\ pc' = [pc EXCEPT ![r] = "hung"]
    /\ UNCHANGED <<startupVars, fs, body, text, uuid, filepath, call, resp>>

\* Variant of Respond200: the file name is returned, not the path.
Respond200Filename(r) ==
    /\ pc[r] = "returned"
    /\ resp' = [resp EXCEPT ![r] =
                  Resp200([dir |-> "", name |-> filepath[r].name])]
    /\ pc' = [pc EXCEPT ![r] = "done"]
    /\ UNCHANGED <<startupVars, fs, body, text, uuid, filepath, call, outcome>>

\* Variant of Respond200: the handler answers without waiting for the call.
Respond200Early(r) ==
    /\ pc[r] \in {"in_synth", "writing", "hung", "returned"}
    /\ resp' = [resp EXCEPT ![r] = Resp200(filepath[r])]
    /\ pc' = [pc EXCEPT ![r] = "done"]
    /\ UNCHANGED <<startupVars, fs, body, text, uuid, filepath, call, outcome>>

\* return jsonify({"audio_path": filepath})
Respond200(r) ==
    /\ pc[r] = "returned"
    /\ resp' = [resp EXCEPT ![r] = Resp200(filepath[r])]
    /\ pc' = [pc EXCEPT ![r] = "done"]
    /\ UNCHANGED <<startupVars, fs, body, text, uuid, filepath, call, outcome>>

\* Variant of Propagate: the handler catches the exception and answers
\* with the path all the same.
PropagateCaught(r) ==
    /\ pc[r] = "raised"
    /\ resp' = [resp EXCEPT ![r] = Resp200(filepath[r])]
    /\ pc' = [pc EXCEPT ![r] = "done"]
    /\ UNCHANGED <<startupVars, fs, body, text, uuid, filepath, call, outcome>>

\* Variant of Propagate: the handler removes the file before it re-raises.
PropagateCleanup(r) ==
    /\ pc[r] = "raised"
    /\ resp' = [resp EXCEPT ![r] = Resp500]
    /\ pc' = [pc EXCEPT ![r] = "done"]
    /\ fs' = IF filepath[r] = NoPath
             THEN fs
             ELSE [fs EXCEPT ![filepath[r].name.hex] = NoFile]
    /\ UNCHANGED <<startupVars, body, text, uuid, filepath, call, outcome>>

\* No try/except in synthesize(): the exception leaves the handler and the
\* framework answers 500.
Propagate(r) ==
    /\ pc[r] = "raised"
    /\ resp' = [resp EXCEPT ![r] = Resp500]
    /\ pc' = [pc EXCEPT ![r] = "done"]
    /\ UNCHANGED <<startupVars, fs, body, text, uuid, filepath, call, outcome>>

Next ==
    \/ LoadModel
    \/ LoadModelFails
    \/ MakeDirs
    \/ MakeDirsFails
    \/ \E r \in Requests : Receive(r)
    \/ \E r \in Requests : GetText(r)
    \/ \E r \in Requests : Validate(r)
    \/ \E r \in Requests : GenerateFilename(r)
    \/ \E r \in Requests : SynthCall(r)
    \/ \E r \in Requests : SynthOpenFile(r)
    \/ \E r \in Requests : SynthReturn(r)
    \/ \E r \in Requests : SynthRaise(r)
    \/ \E r \in Requests : SynthHang(r)
    \/ \E r \in Requests : Respond200(r)
    \/ \E r \in Requests : Propagate(r)

Spec == Init /\ [][Next]_vars

-----------------------------------------------------------------------------
(* Vocabulary of the properties.                                            *)

Started(r) == pc[r] # "new"
IsObject(r) == body[r].kind = "object"
\* The step is one of request r.
Stepped(r) == pc'[r] # pc[r]
PastValidation(r) == pc[r] \notin {"new", "get_text", "validate"}
Named(r) == filepath[r] # NoPath
FileNames == { t \in Tokens : fs[t].state # "absent" }
\* The path names a file that exists in OUTPUT_DIR.
Exists(path) ==
    /\ dirExists
    /\ path.dir = OUTPUT_DIR
    /\ path.name.prefix = "tts_"
    /\ path.name.ext = ".wav"
    /\ path.name.hex \in Tokens
    /\ fs[path.name.hex].state # "absent"

\* The request carries no usable text: no body object, no "text" member, or "".
TextMissingOrEmpty(r) ==
    /\ Started(r)
    /\ \/ ~body[r].hasText
       \/ body[r].text = JStr(<<>>)

\* The falsy JSON values of the model, listed one by one.
FalsyValues ==
    { JStr(<<>>), JNull, JNum(0), JBool(FALSE), JList(<<>>), JObj(<<>>) }

\* The request's text is a non-empty string of whitespace only.
WhitespaceOnly(r) ==
    /\ Started(r)
    /\ IsObject(r)
    /\ body[r].hasText
    /\ body[r].text.type = "string"
    /\ Len(body[r].text.s) > 0
    /\ \A i \in 1..Len(body[r].text.s) : body[r].text.s[i] \in Whitespace

-----------------------------------------------------------------------------
\* C1 as stated: every request whose text is missing or empty, whatever its
\* body, is answered 400 {"error": "No text provided"} and makes no
\* synthesis call.
C1_Original ==
    \A r \in Requests :
        TextMissingOrEmpty(r) =>
            /\ ~call[r].made
            /\ pc[r] = "done" => resp[r] = Resp400

C1_NoFileTouched ==
    \A r \in Requests :
        ((TextMissingOrEmpty(r) /\ IsObject(r))' /\ Stepped(r)) => fs' = fs

\* C1, amended: a request whose body is a JSON object with `text` missing or
\* empty is answered exactly 400 {"error": "No text provided"}, never makes
\* the synthesis call, and none of its steps changes the files of the output
\* directory.
C1_Amended ==
    /\ [](\A r \in Requests :
            (TextMissingOrEmpty(r) /\ IsObject(r)) =>
                /\ pc[r] \in {"get_text", "validate", "done"}
                /\ resp[r] \in {NoResponse, Resp400}
                /\ pc[r] = "done" => resp[r] = Resp400
                /\ ~call[r].made
                /\ ~Named(r))
    /\ [][C1_NoFileTouched]_vars

C1_Witness ==
    \E r \in Requests :
        /\ IsObject(r)
        /\ ~body[r].hasText
        /\ pc[r] = "done"
        /\ resp[r] = Resp400
        /\ \E q \in Requests, t \in Tokens : q # r /\ q \in fs[t].writers

\* C2: when the synthesis call of a request returned and the request was
\* answered, the answer is 200 with audio_path, audio_path is the path the
\* call was given, and the file of that name exists in the output directory.
C2_ResponseNamesExistingFile ==
    \A r \in Requests :
        (outcome[r] = "returned" /\ pc[r] = "done") =>
            /\ resp[r].status = 200
            /\ resp[r].key = "audio_path"
            /\ resp[r].audio_path = filepath[r]
            /\ resp[r].audio_path = call[r].file_path
            /\ Exists(resp[r].audio_path)

C2_Witness ==
    \E r \in Requests :
        /\ body[r] = ObjectBody(TRUE, JStr(<<"h", "i">>))
        /\ outcome[r] = "returned"
        /\ pc[r] = "done"
        /\ resp[r].status = 200

C4_Original ==
    \A r \in Requests :
        WhitespaceOnly(r) =>
            /\ ~call[r].made
            /\ pc[r] = "done" => resp[r] = Resp400

\* C4, amended: the text is not trimmed.  A request whose text is a
\* non-empty string of whitespace passes validation: it is never answered
\* 400, a filename is generated for it, and the synthesis call gets the
\* text as sent.
C4_Amended ==
    \A r \in Requests :
        (WhitespaceOnly(r) /\ PastValidation(r)) =>
            /\ resp[r] # Resp400
            /\ pc[r] # "gen_name" => Named(r)
            /\ pc[r] \notin {"gen_name", "call"} => call[r].made
            /\ call[r].made => call[r].text = body[r].text
            /\ pc[r] = "done" => resp[r].status \in {200, 500}

C4_Witness ==
    \E r \in Requests :
        /\ WhitespaceOnly(r)
        /\ call[r].made
        /\ pc[r] = "done"
        /\ resp[r].status = 200

C5_NoCleanup ==
    \A r \in Requests : (outcome[r] = "raised" /\ Stepped(r)) => fs' = fs

\* C5: once the synthesis call of a request raised, the request is answered
\* with the server error only (never 200, never an audio_path), and no step
\* of the request changes the files: what the call wrote stays, partial.
C5_FailurePropagates ==
    /\ [](\A r \in Requests :
            outcome[r] = "raised" =>
                /\ pc[r] \in {"raised", "done"}
                /\ resp[r] \in {NoResponse, Resp500}
                /\ pc[r] = "done" => resp[r] = Resp500
                /\ r \in fs[uuid[r]].writers => fs[uuid[r]].state # "absent"
                /\ fs[uuid[r]].writers = {r} => fs[uuid[r]].state = "partial")
    /\ [][C5_NoCleanup]_vars

C5_Witness ==
    \E r \in Requests :
        /\ outcome[r] = "raised"
        /\ pc[r] = "done"
        /\ resp[r] = Resp500
        /\ fs[uuid[r]].writers = {r}
        /\ fs[uuid[r]].state = "partial"

C6_Step ==
    /\ FileNames \subseteq FileNames'
    /\ Cardinality(FileNames' \ FileNames) <= 1
    /\ \A t \in Tokens :
          /\ fs[t].writers \subseteq fs'[t].writers
          /\ fs'[t] # fs[t] =>
                \E r \in Requests :
                    /\ Stepped(r)
                    /\ pc[r] \in {"in_synth", "writing"}
                    /\ uuid[r] = t

C7_Step ==
    /\ (\E r \in Requests : Stepped(r)) => UNCHANGED startupVars
    /\ (server' # server) => UNCHANGED <<fs, handlerVars>>
    /\ dirExists => dirExists'
    /\ loads' # loads => (server = "load_model" /\ loads = 0)

\* C7: a request is handled only after startup completed: the model was
\* loaded once and the output directory exists.  Startup leaves the files
\* of an existing directory alone, and no step of a request loads the model
\* or touches the directory's existence.
C7_StartupPrecedesServing ==
    /\ []((\E r \in Requests : Started(r)) =>
            (server = "serving" /\ loads = 1 /\ dirExists))
    /\ [](loads <= 1)
    /\ [][C7_Step]_vars

C7_Witness ==
    /\ \A r \in Requests : pc[r] = "done"
    /\ \E r \in Requests : resp[r].status = 200
    /\ loads = 1
    /\ dirExists

C8_Step ==
    \A r \in Requests :
        /\ (call'[r].made /\ ~call[r].made) => (pc[r] = "call" /\ Named(r))
        /\ (Named(r)' /\ ~Named(r)) => (pc[r] = "gen_name" /\ pc'[r] = "call")
        /\ (resp'[r] # resp[r] /\ Named(r)) =>
              /\ call[r].made
              /\ pc[r] \in {"returned", "raised"}
              /\ outcome[r] \in {"returned", "raised"}
        /\ (resp'[r].status = 200 /\ resp[r].status # 200) =>
              outcome[r] = "returned"
        /\ pc[r] = "hung" => (pc'[r] = "hung" /\ resp'[r] = resp[r])

\* C8: for a validated request the filename is generated before the
\* synthesis call is made, and the response is sent only after that call has
\* ended; while the call runs there is no response, and a request whose call
\* never returns stays without one for ever.
C8_OrderAndBlocking ==
    /\ [](\A r \in Requests :
            /\ call[r].made => (Named(r) /\ call[r].file_path = filepath[r])
            /\ pc[r] \in {"gen_name", "call", "in_synth", "writing", "hung",
                          "returned", "raised"} => resp[r] = NoResponse)
    /\ [][C8_Step]_vars

C8_Witness ==
    \E r1, r2 \in Requests :
        /\ pc[r1] = "hung"
        /\ resp[r1] = NoResponse
        /\ pc[r2] = "done"
        /\ resp[r2].status = 200

\* C9: for a JSON-object body the validation answers 400 exactly when `text`
\* is absent or one of the falsy values; any other value, string or not,
\* gets a filename and is passed unchanged to the synthesis call.
C9_TruthinessOnly ==
    \A r \in Requests :
        (IsObject(r) /\ PastValidation(r)) =>
            IF ~body[r].hasText \/ body[r].text \in FalsyValues
            THEN /\ pc[r] = "done"
                 /\ resp[r] = Resp400
                 /\ ~Named(r)
                 /\ ~call[r].made
            ELSE /\ resp[r] # Resp400
                 /\ pc[r] # "gen_name" => Named(r)
                 /\ pc[r] \notin {"gen_name", "call"} => call[r].made
                 /\ call[r].made =>
                       /\ call[r].text = body[r].text
                       /\ call[r].file_path = filepath[r]

C9_Witness ==
    \E r \in Requests :
        /\ body[r] = ObjectBody(TRUE, JNum(5))
        /\ call[r].made
        /\ call[r].text = JNum(5)
        /\ Named(r)

\* C10: a request whose parsed body is no JSON object is never answered 400
\* "No text provided": it ends in the server error, no filename is generated
\* for it, no synthesis call is made and it writes no file.
C10_NonObjectBodyFails ==
    \A r \in Requests :
        (Started(r) /\ ~IsObject(r)) =>
            /\ pc[r] \in {"get_text", "raised", "done"}
            /\ resp[r] \in {NoResponse, Resp500}
            /\ pc[r] = "done" => resp[r] = Resp500
            /\ ~Named(r)
            /\ uuid[r] = NoToken
            /\ ~call[r].made
            /\ \A t \in Tokens : r \notin fs[t].writers

C10_Witness ==
    \E r \in Requests :
        /\ body[r] = NonObjectBody("null")
        /\ pc[r] = "done"
        /\ resp[r] = Resp500

====
